---- MODULE Spec2Model ----
(***************************************************************************)
(* Model of scheduler.py: the minute clock (Time), the weekday block       *)
(* (ClassTime) with its overlap test, and build_schedules, which expands   *)
(* the options of each requested class over the schedules built so far.    *)
(***************************************************************************)
EXTENDS Integers, Sequences, FiniteSets, TLC

\* ---------------------------------------------------------------- bounds
\* Largest minute count of a start or end time.
MaxTime == 2
\* Largest number of requested classes handed to build_schedules.
MaxReqs == 2
\* Largest number of ClassTime blocks in one input, over all its options.
MaxBlocks == 2

\* ------------------------------------------------------------ Time, Day
\* Time.__init__: a Time is its minute count.
Time(hours, mins) == (hours * 60) + mins

TimeLt(a, b) == a < b

TimeEq(a, b) == a = b

TimeLe(a, b) == TimeLt(a, b) \/ TimeEq(a, b)

\* Time defines no __ge__: a >= b is evaluated as the reflected b <= a.
TimeGe(a, b) == TimeLe(b, a)

DAYS == <<"Mon", "Tues", "Wed", "Thur", "Fri">>

\* ------------------------------------------------------------ ClassTime
ClassTime(day, start_time, end_time) ==
    [day |-> day, start_time |-> start_time, end_time |-> end_time]

\* Variant of overlaps with open ends: touching blocks do not overlap.
overlaps_open(self, other) ==
    LET same_day == self.day = other.day
        start_in_other == TimeGe(self.start_time, other.start_time)
                          /\ TimeLt(self.start_time, other.end_time)
        end_in_other == TimeLt(other.start_time, self.end_time)
                        /\ TimeLe(self.end_time, other.end_time)
    IN  same_day /\ (start_in_other \/ end_in_other)

\* Variant of overlaps that forgets the weekday.
overlaps_any_day(self, other) ==
    LET start_in_other == TimeGe(self.start_time, other.start_time)
                          /\ TimeLe(self.start_time, other.end_time)
        end_in_other == TimeGe(self.end_time, other.start_time)
                        /\ TimeLe(self.end_time, other.end_time)
    IN  start_in_other \/ end_in_other

overlaps(self, other) ==
    LET same_day == self.day = other.day
        start_in_other == TimeGe(self.start_time, other.start_time)
                          /\ TimeLe(self.start_time, other.end_time)
        end_in_other == TimeGe(self.end_time, other.start_time)
                        /\ TimeLe(self.end_time, other.end_time)
    IN  same_day /\ (start_in_other \/ end_in_other)

\* ------------------------------------------- UnrealizedClass and Class
UnrealizedClass(name, time_options) ==
    [name |-> name, time_options |-> time_options]

\* A Class holds a reference to the option list it was built from, not a copy:
\* times is the list object new_class.time_options[option], and option records
\* which one it is.
Class(name, times, option) == [name |-> name, times |-> times, option |-> option]

\* ------------------------------------------------------ schedule builder
new_class_time_fits(schedule, new_times) ==
    \A n \in 1..Len(new_times) :
        \A c \in 1..Len(schedule) :
            \A t \in 1..Len(schedule[c].times) :
                ~overlaps(schedule[c].times[t], new_times[n])

\* Variant of fitting_options that stops at the first option that fits.
first_fitting_option(schedule, new_class) ==
    LET fit == SelectSeq([j \in 1..Len(new_class.time_options) |-> j],
                   LAMBDA j : new_class_time_fits(schedule, new_class.time_options[j]))
    IN  SubSeq(fit, 1, IF fit = <<>> THEN 0 ELSE 1)

\* The loop of get_fitting_classes: the positions, in option order, of the
\* options of new_class that fit the schedule.
fitting_options(schedule, new_class) ==
    SelectSeq([j \in 1..Len(new_class.time_options) |-> j],
              LAMBDA j : new_class_time_fits(schedule, new_class.time_options[j]))

\* Variant of get_fitting_classes that lists the fitting options backwards.
get_fitting_classes_reversed(schedule, new_class) ==
    LET fit == fitting_options(schedule, new_class)
    IN  [k \in 1..Len(fit) |->
            Class(new_class.name, new_class.time_options[fit[Len(fit) + 1 - k]],
                  fit[Len(fit) + 1 - k])]

get_fitting_classes(schedule, new_class) ==
    LET fit == fitting_options(schedule, new_class)
    IN  [k \in 1..Len(fit) |->
            Class(new_class.name, new_class.time_options[fit[k]], fit[k])]

\* Variant of extend that keeps a schedule no option fits.
extend_keep(schedule, c) ==
    LET fitting_classes == get_fitting_classes(schedule, c)
    IN  IF fitting_classes = <<>> THEN <<schedule>>
        ELSE [k \in 1..Len(fitting_classes) |-> schedule \o <<fitting_classes[k]>>]

\* Variant of extend that appends the new class to an empty schedule.
extend_alone(schedule, c) ==
    LET fitting_classes == get_fitting_classes(schedule, c)
    IN  [k \in 1..Len(fitting_classes) |-> <<fitting_classes[k]>>]

\* The inner loop of build_schedules for one schedule: its extensions.
extend(schedule, c) ==
    LET fitting_classes == get_fitting_classes(schedule, c)
    IN  [k \in 1..Len(fitting_classes) |-> schedule \o <<fitting_classes[k]>>]

\* The loop over the schedules: new_schedules after one request.
RECURSIVE new_schedules(_, _)
new_schedules(scheds, c) ==
    IF scheds = <<>> THEN <<>>
    ELSE extend(Head(scheds), c) \o new_schedules(Tail(scheds), c)

\* Variant of initial_schedules: schedules = [].
no_schedules == <<>>

\* schedules = [[]]
initial_schedules == << <<>> >>

\* ------------------------------------------------------------- inputs
\* Days of the builder's inputs: overlaps only compares days for equality.
InputDays == {DAYS[1], DAYS[2]}

Clock == {Time(0, m) : m \in 0..MaxTime}

\* Well-formed blocks (start <= end), the builder's inputs.
Blocks ==
    {b \in {ClassTime(d, s, e) : d \in InputDays, s \in Clock, e \in Clock} :
        TimeLe(b.start_time, b.end_time)}

\* Every block, malformed ones included, on every weekday.
AnyBlocks ==
    {ClassTime(DAYS[d], s, e) : d \in 1..Len(DAYS), s \in Clock, e \in Clock}

\* An input's shape numbers its blocks 1, 2, ... in reading order: a shape
\* is a list (requests) of lists (options) of non-empty lists of numbers.
\* OptionShapes(from, k): the option lists over the numbers from+1..from+k.
RECURSIVE OptionShapes(_, _)
OptionShapes(from, k) ==
    IF k = 0 THEN {<<>>}
    ELSE UNION {{<<[p \in 1..j |-> from + p]>> \o rest : rest \in OptionShapes(from + j, k - j)}
                : j \in 1..k}

\* RequestShapes(n, from, k): n option lists over the numbers from+1..from+k.
RECURSIVE RequestShapes(_, _, _)
RequestShapes(n, from, k) ==
    IF n = 0 THEN (IF k = 0 THEN {<<>>} ELSE {})
    ELSE UNION {{<<o>> \o rest : o \in OptionShapes(from, j),
                                 rest \in RequestShapes(n - 1, from + j, k - j)}
                : j \in 0..k}

CourseName(i) == <<"course", i>>

\* The input of shape sh whose block number p is fill[p].
Fill(sh, fill) ==
    [i \in 1..Len(sh) |->
        UnrealizedClass(CourseName(i),
            [o \in 1..Len(sh[i]) |->
                [p \in 1..Len(sh[i][o]) |-> fill[sh[i][o][p]]]])]

\* -------------------------------------------------------------- state
VARIABLES
    class_options,  \* the argument of build_schedules
    schedules,      \* the working list of (partial) schedules
    done,           \* number of requests the outer loop has processed
    pc,             \* "loop", "returned" in build_schedules;
                    \* "call", "answered" in a comparison of two blocks
    self, other,    \* the two blocks of an overlaps comparison
    answer          \* <<self.overlaps(other), other.overlaps(self)>>

vars == <<class_options, schedules, done, pc, self, other, answer>>

NoBlock == ClassTime(DAYS[1], Time(0, 0), Time(0, 0))

\* build_schedules entered with some list of requests.
InitBuild ==
    /\ \E n \in 0..MaxReqs, k \in 0..MaxBlocks :
          \E sh \in RequestShapes(n, 0, k), fill \in [1..k -> Blocks] :
              class_options = Fill(sh, fill)
    /\ schedules = initial_schedules
    /\ done = 0
    /\ pc = "loop"
    /\ self = NoBlock
    /\ other = NoBlock
    /\ answer = <<>>

\* Two blocks about to be compared, outside any build.
InitOverlaps ==
    /\ self \in AnyBlocks
    /\ other \in AnyBlocks
    /\ answer = <<>>
    /\ pc = "call"
    /\ class_options = <<>>
    /\ schedules = initial_schedules
    /\ done = 0

Init == InitBuild \/ InitOverlaps

\* One iteration of "for c in class_options".
Stage ==
    /\ pc = "loop"
    /\ done < Len(class_options)
    /\ schedules' = new_schedules(schedules, class_options[done + 1])
    /\ done' = done + 1
    /\ UNCHANGED <<class_options, pc, self, other, answer>>

\* "return schedules" once the loop is exhausted.
Return ==
    /\ pc = "loop"
    /\ done = Len(class_options)
    /\ pc' = "returned"
    /\ UNCHANGED <<class_options, schedules, done, self, other, answer>>

\* self.overlaps(other) and other.overlaps(self).
Compare ==
    /\ pc = "call"
    /\ answer' = <<overlaps(self, other), overlaps(other, self)>>
    /\ pc' = "answered"
    /\ UNCHANGED <<class_options, schedules, done, self, other>>

Next == Stage \/ Return \/ Compare

Spec == Init /\ [][Next]_vars

\* ------------------------------------------------------- vocabulary
InBuild == pc \in {"loop", "returned"}

Returned == pc = "returned"

Answered == pc = "answered"

WellFormed(t) == TimeLe(t.start_time, t.end_time)

\* The option positions a schedule chose, request by request.
Picks(schedule) == [i \in 1..Len(schedule) |-> schedule[i].option]

\* Some block of selection i and some block of selection j overlap, the
\* blocks taken in this order.
Clash(schedule, i, j) ==
    \E x \in 1..Len(schedule[i].times), y \in 1..Len(schedule[j].times) :
        overlaps(schedule[i].times[x], schedule[j].times[y])

\* One block ends exactly when a block of another selection starts that day.
Touch(schedule, i, j) ==
    \E x \in 1..Len(schedule[i].times), y \in 1..Len(schedule[j].times) :
        /\ schedule[i].times[x].day = schedule[j].times[y].day
        /\ TimeEq(schedule[i].times[x].end_time, schedule[j].times[y].start_time)

\* The combinations of one option position per request of the input.
Combinations ==
    {f \in [1..Len(class_options) -> 1..MaxBlocks] :
        \A i \in 1..Len(class_options) : f[i] <= Len(class_options[i].time_options)}

\* The schedule a combination stands for.
Chosen(f) ==
    [i \in 1..Len(class_options) |->
        Class(class_options[i].name, class_options[i].time_options[f[i]], f[i])]

ConflictFree(schedule) ==
    \A i, j \in 1..Len(schedule) : i # j => ~Clash(schedule, i, j)

Occurrences(f) == {s \in 1..Len(schedules) : Picks(schedules[s]) = f}

\* p comes before q in the lexicographic order, first component most
\* significant.
LexLess(p, q) ==
    \E i \in 1..Len(p) :
        /\ i <= Len(q)
        /\ p[i] < q[i]
        /\ \A j \in 1..(i - 1) : p[j] = q[j]

Front(seq) == SubSeq(seq, 1, Len(seq) - 1)

\* --------------------------------------------------------------- C1
\* C1: in every schedule build_schedules returns, no block of one selection
\* overlaps a block of another selection, in either argument order.
C1_NoConflict ==
    Returned => \A s \in 1..Len(schedules) : ConflictFree(schedules[s])

\* --------------------------------------------------------------- C2
\* C2: every combination of one option per request whose options do not
\* overlap one another is returned exactly once, and no combination is
\* returned twice.
C2_Completeness ==
    Returned =>
        \A f \in Combinations :
            /\ ConflictFree(Chosen(f)) => Cardinality(Occurrences(f)) = 1
            /\ Cardinality(Occurrences(f)) <= 1

\* Two requests were given and some combination of their options is free of
\* overlaps.
C2_Witness ==
    /\ Returned
    /\ Len(class_options) = 2
    /\ \E f \in Combinations : ConflictFree(Chosen(f))

\* --------------------------------------------------------------- C3
\* C3: for well-formed blocks on the same weekday, a.overlaps(b) and
\* b.overlaps(a) agree.
C3_Symmetry ==
    (Answered /\ self.day = other.day /\ WellFormed(self) /\ WellFormed(other))
        => answer[1] = answer[2]

\* --------------------------------------------------------------- C4
\* C4: for well-formed blocks, a.overlaps(b) is true exactly when the days
\* are equal and the closed ranges share a minute, that is when one block's
\* start lies within the other's closed range.
C4_Intersection ==
    (Answered /\ WellFormed(self) /\ WellFormed(other))
        => (answer[1] <=>
               /\ self.day = other.day
               /\ \/ self.start_time \in other.start_time..other.end_time
                  \/ other.start_time \in self.start_time..self.end_time)

\* --------------------------------------------------------------- C5
\* C5: well-formed blocks on the same weekday, one ending when the other
\* starts, overlap in both argument orders; and no returned schedule holds
\* two selections with one's block ending exactly when the other's block on
\* the same day starts.
C5_Touching ==
    /\ (Answered /\ self.day = other.day /\ WellFormed(self) /\ WellFormed(other)
            /\ TimeEq(self.end_time, other.start_time))
        => answer = <<TRUE, TRUE>>
    /\ Returned =>
        \A s \in 1..Len(schedules) :
            \A i, j \in 1..Len(schedules[s]) : i # j => ~Touch(schedules[s], i, j)

\* Two requests, one option each, the first ending when the second starts:
\* the build has run and returned nothing.
C5_Witness ==
    /\ Returned
    /\ Len(class_options) = 2
    /\ \A i \in 1..2 : Len(class_options[i].time_options) = 1
    /\ Touch(Chosen([i \in 1..2 |-> 1]), 1, 2)
    /\ TimeLt(class_options[1].time_options[1][1].start_time,
              class_options[1].time_options[1][1].end_time)
    /\ schedules = <<>>

\* --------------------------------------------------------------- C6
\* C6: blocks on different weekdays never overlap, whatever their times,
\* malformed blocks included.
C6_DifferentDays ==
    (Answered /\ self.day # other.day) => answer = <<FALSE, FALSE>>

\* Two blocks with the same times on different days, both malformed, have
\* been compared.
C6_Witness ==
    /\ Answered
    /\ self.day # other.day
    /\ self.start_time = other.start_time
    /\ self.end_time = other.end_time
    /\ ~WellFormed(self)

\* --------------------------------------------------------------- C7
\* C7: once a request without options has been processed the working list
\* is empty, so is the returned list, and a working list that is empty
\* stays empty through every later stage.
C7_EmptyCollapse ==
    /\ [](InBuild =>
            ((\E i \in 1..done : class_options[i].time_options = <<>>)
                => schedules = <<>>))
    /\ [](Returned =>
            ((\E i \in 1..Len(class_options) : class_options[i].time_options = <<>>)
                => schedules = <<>>))
    /\ [][schedules = <<>> => schedules' = <<>>]_vars

\* A request without options came first, a request with options after it,
\* and the build has returned.
C7_Witness ==
    /\ Returned
    /\ Len(class_options) = 2
    /\ class_options[1].time_options = <<>>
    /\ class_options[2].time_options # <<>>

\* --------------------------------------------------------------- C8
\* C8: build_schedules of the empty request list returns exactly one
\* schedule, which has no selections.
C8_EmptyInput ==
    (Returned /\ class_options = <<>>)
        => (Len(schedules) = 1 /\ schedules[1] = <<>>)

C8_Witness == Returned /\ class_options = <<>>

\* --------------------------------------------------------------- C9
\* C9: after k requests every schedule of the working list has k
\* selections; the i-th selection carries the i-th request's name and its
\* times are one of that request's options; a returned schedule has one
\* selection per request.
C9_OnePerRequest ==
    InBuild =>
        \A s \in 1..Len(schedules) :
            /\ Len(schedules[s]) = done
            /\ Returned => Len(schedules[s]) = Len(class_options)
            /\ \A i \in 1..Len(schedules[s]) :
                /\ i <= Len(class_options)
                /\ schedules[s][i].name = class_options[i].name
                /\ schedules[s][i].option \in 1..Len(class_options[i].time_options)
                /\ schedules[s][i].times
                       = class_options[i].time_options[schedules[s][i].option]

\* Two requests were given and a schedule of them was returned.
C9_Witness ==
    /\ Returned
    /\ Len(class_options) = 2
    /\ schedules # <<>>

\* -------------------------------------------------------------- C10
\* Going from one stage to the next, the extensions of an earlier schedule
\* come before those of a later one, and the extensions of one schedule come
\* in the request's option order.
StageKeepsOrder ==
    (done' = done + 1) =>
        \A a, b \in 1..Len(schedules') :
            a < b =>
                \E qa, qb \in 1..Len(schedules) :
                    /\ schedules[qa] = Front(schedules'[a])
                    /\ schedules[qb] = Front(schedules'[b])
                    /\ \/ qa < qb
                       \/ /\ qa = qb
                          /\ schedules'[a][done'].option < schedules'[b][done'].option

====
